---- MODULE Spec2Model ----
(***************************************************************************)
(* Posture-classification pipeline of back-watch                           *)
(* (src/src/hooks/usePostureTracking.ts, the hook usePostureTracking, and  *)
(* the consumer of its events in src/src/App.tsx).                         *)
(*                                                                         *)
(* Numbers.  Landmark coordinates are normalised floats in the source; the *)
(* model keeps them as integers in thousandths of the frame (x = 500 is    *)
(* the centre).  Midpoints and averages of two landmarks are kept doubled  *)
(* (suffix 2), so no division is needed; thresholds are scaled with them   *)
(* and rational thresholds are compared by cross-multiplication, so every  *)
(* comparison of coordinates is decided exactly.  Distances (Math.sqrt,    *)
(* Math.hypot) are evaluated in ten-thousandths of the frame, rounded      *)
(* down; they are exact for level shoulders.  Angles are in hundredths of  *)
(* a degree; atan2 is evaluated to the nearest whole degree through a      *)
(* tangent table.  Time is in milliseconds.                                *)
(***************************************************************************)
EXTENDS Integers, Sequences, FiniteSets, TLC

VARIABLES
    baselineRef,       \* baselineRef.current: the captured pose, or NoBaseline
    listener,          \* the callback registered with pose.onResults
    calibrationCount,  \* React state calibrationCount
    sensitivity,       \* sensitivityRef.current
    writingMode,       \* writingModeRef.current
    now,               \* wall clock, Date.now()
    lastUpdateRef,     \* lastUpdateRef.current
    metrics,           \* last PostureMetrics handed to onMetricsUpdate
    frame,             \* what happened to the last delivered frame
    publishedAt,       \* the times of the last two published events
    privacyBlur,       \* privacyBlurRef.current
    skeletonColor,     \* skeletonColorRef.current
    twin,              \* a second run of the hook, fed the same frames, clock,
                       \* calibrate() calls, sensitivity and Writing Mode,
                       \* with privacy mode and skeleton colour of its own
    cameraRef,         \* cameraRef.current: "null" or "camera"
    isActive,          \* React state isActive
    camera,            \* the Camera object created last: "none", "starting",
                       \* "on", "off", or "aborted" (stopped while starting)
    startPc,           \* where the startCamera() in flight is waiting
    stopPc,            \* where the stopCamera() in flight is waiting
    session,           \* number of camera starts that have resolved
    baselineSession,   \* the session the stored baseline was captured in
    app                \* the refs and state of App that follow the hook

\* the camera and the two asynchronous operations on it
cameraVars == << cameraRef, isActive, camera, startPc, stopPc, session >>

vars == << baselineRef, listener, calibrationCount, sensitivity, writingMode,
           now, lastUpdateRef, metrics, frame, publishedAt, privacyBlur,
           skeletonColor, twin, cameraRef, isActive, camera, startPc, stopPc, session,
           baselineSession, app >>

-----------------------------------------------------------------------------
(* Bounds of the model *)

\* the wall clock at construction stands for a real Date.now() (about 1.7e12)
Epoch == 1000

\* frames are delivered while the clock is at most Epoch + Horizon
Horizon == 300

\* the same for the runs of the whole application, whose alarm timer and
\* calibrate reminder count seconds
AppHorizon == 20000

\* calibrate() is offered while fewer than this many captures have happened
MaxCalibrations == 2

\* startCamera() is offered while fewer than this many starts have resolved
MaxSessions == 2

-----------------------------------------------------------------------------
(* Landmarks and poses *)

\* a landmark whose optional visibility is absent
NoVisibility == -1

\* results.poseLandmarks undefined, baselineRef.current null, metrics null
NoPose == [absent |-> "poseLandmarks"]
NoBaseline == [absent |-> "baseline"]
NoMetrics == [absent |-> "metrics"]
NoFrame == [absent |-> "frame"]

\* a landmark: x, y in thousandths, visibility in hundredths or NoVisibility
Lm(x, y, v) == [x |-> x, y |-> y, visibility |-> v]

\* indices of the landmarks the classifier reads
NOSE == 0
LEFT_EAR == 7
RIGHT_EAR == 8
LEFT_SHOULDER == 11
RIGHT_SHOULDER == 12
LEFT_HIP == 23
RIGHT_HIP == 24

\* number of landmarks of a full pose; POSE_CONNECTIONS refers to 0..32
FullLength == 33

KeyIdx == {NOSE, LEFT_EAR, RIGHT_EAR, LEFT_SHOULDER, RIGHT_SHOULDER, LEFT_HIP, RIGHT_HIP}

\* landmarks[i] is defined exactly for the indices below landmarks.length
Has(p, i) == i < p.len

At(p, i) == p.lm[i]

\* a frontal pose: the shoulders are centred on x = 500
Body(len, noseX, noseY, noseVis, earMidX, earYL, earYR, shY, halfSpan, hipY) ==
    [len |-> len,
     lm  |-> [i \in {k \in KeyIdx : k < len} |->
                CASE i = NOSE           -> Lm(noseX, noseY, noseVis)
                  [] i = LEFT_EAR       -> Lm(earMidX + 60, earYL, 99)
                  [] i = RIGHT_EAR      -> Lm(earMidX - 60, earYR, 99)
                  [] i = LEFT_SHOULDER  -> Lm(500 + halfSpan, shY, 99)
                  [] i = RIGHT_SHOULDER -> Lm(500 - halfSpan, shY, NoVisibility)
                  [] i = LEFT_HIP       -> Lm(600, hipY, 80)
                  [] i = RIGHT_HIP      -> Lm(400, hipY, 80)]]

Upright     == Body(33, 500, 300, 99, 500, 300, 300, 500, 150, 900)
Slouched    == Body(33, 500, 380, 99, 500, 380, 380, 580, 150, 900)
Near        == Body(33, 500, 300, 99, 500, 300, 300, 500, 180, 900)
Far         == Body(33, 500, 300, 99, 500, 300, 300, 500,  90, 900)
FarSlouched == Body(33, 500, 380, 99, 500, 380, 380, 580,  90, 900)
FarRaised   == Body(33, 500, 260, 99, 500, 260, 260, 460,  90, 900)
HeadSide    == Body(33, 632, 300, 99, 500, 300, 300, 500, 150, 900)
NeckForward == Body(33, 600, 300, 99, 600, 300, 300, 500, 150, 900)
ChinDown    == Body(33, 500, 430, 99, 500, 300, 300, 500, 150, 900)
Tilted      == Body(33, 500, 300, 99, 500, 250, 350, 500, 150, 900)
RaisedByEar == Body(33, 500, 340, 99, 500, 340, 340, 500, 150, 900)
Standing    == Body(33, 500, 180, 99, 500, 180, 180, 380, 150, 840)
NoHips      == Body(23, 500, 300, 99, 500, 300, 300, 500, 150, 900)
Short       == Body(12, 500, 300, 99, 500, 300, 300, 500, 150, 900)
LowVis      == Body(33, 500, 300, 40, 500, 300, 300, 500, 150, 900)
OutOfFrame  == Body(33, 500, -60, 99, 500, 300, 300, 500, 150, 900)
Collapsed   == Body(33, 500, 300, 99, 500, 300, 300, 500,   5, 900)

\* nearer than Upright, by a factor between the ratios of levels 4 and 5
SlightlyNear == Body(33, 500, 300, 99, 500, 300, 300, 500, 166, 900)

\* nearer than Upright and: stood up; torso longer, hips where they were;
\* hips moved up, torso as long; torso exactly 1.12 times as long; hips
\* exactly 0.04 higher
StandingNear     == Body(33, 500, 180, 99, 500, 180, 180, 380, 180, 840)
StretchedNear    == Body(33, 500, 200, 99, 500, 200, 200, 400, 180, 900)
ShiftedUpNear    == Body(33, 500, 240, 99, 500, 240, 240, 440, 180, 840)
TorsoAtRatioNear == Body(33, 500, 192, 99, 500, 192, 192, 392, 180, 840)
HipsAtMarginNear == Body(33, 500, 180, 99, 500, 180, 180, 380, 180, 860)

\* head turned sideways (nose 0.07 beside the ear midpoint), 0.04 lower
SidewaysSlouched == Body(33, 570, 340, 99, 500, 340, 340, 540, 150, 900)

\* head forward of the shoulders with the shoulders raised by 0.04
NeckForwardRaised == Body(33, 600, 260, 99, 600, 260, 260, 460, 150, 900)

\* head forward of the shoulders, seen from further away
FarNeckForward == Body(33, 600, 300, 99, 600, 300, 300, 500, 90, 900)

\* poses the estimator may deliver
AllPoses == {Upright, Slouched, Near, Far, FarSlouched, FarRaised, HeadSide,
             NeckForward, ChinDown, Tilted, RaisedByEar, Standing, NoHips,
             Short, LowVis, OutOfFrame, Collapsed, SlightlyNear,
             StandingNear, StretchedNear, ShiftedUpNear, TorsoAtRatioNear,
             HipsAtMarginNear, SidewaysSlouched, NeckForwardRaised,
             FarNeckForward}

\* the poses offered to the whole pipeline
PipelinePoses == {Upright, NeckForward, FarRaised, Short, Collapsed}

\* the levels of the sensitivity buttons, and those pressed in the whole pipeline
SensitivityLevels == 1..10

PipelineLevels == {1, 10}

\* time between two delivered frames
FrameGaps == {50, 150}

-----------------------------------------------------------------------------
(* Geometry *)

Abs(v) == IF v < 0 THEN -v ELSE v

Max(a, b) == IF a >= b THEN a ELSE b

\* the element of a one-element set
Only(S) == CHOOSE v \in S : TRUE

\* tan((d - 1/2) degrees) * 1000, d = 1..90
TanHalf ==
    << 9, 26, 44, 61, 79, 96, 114, 132, 149, 167,
       185, 203, 222, 240, 259, 277, 296, 315, 335, 354,
       374, 394, 414, 435, 456, 477, 499, 521, 543, 566,
       589, 613, 637, 662, 687, 713, 740, 767, 795, 824,
       854, 885, 916, 949, 983, 1018, 1054, 1091, 1130, 1171,
       1213, 1257, 1303, 1351, 1402, 1455, 1511, 1570, 1632, 1698,
       1767, 1842, 1921, 2006, 2097, 2194, 2300, 2414, 2539, 2675,
       2824, 2989, 3172, 3376, 3606, 3867, 4165, 4511, 4915, 5396,
       5976, 6691, 7596, 8777, 10385, 12706, 16350, 22904, 38188, 114589 >>

\* atan(a / b) in whole degrees, to the nearest degree, for a >= 0, b >= 0
AtanDeg(a, b) ==
    IF a = 0 THEN 0
    ELSE Cardinality({d \in 1..90 : TanHalf[d] * b <= a * 1000})

\* Math.atan2(y, x) * 180 / Math.PI, in whole degrees within -180..180
Atan2Deg(y, x) ==
    CASE x >= 0 /\ y >= 0 -> AtanDeg(y, x)
      [] x < 0  /\ y >= 0 -> 180 - AtanDeg(y, -x)
      [] x >= 0 /\ y < 0  -> - AtanDeg(-y, x)
      [] x < 0  /\ y < 0  -> AtanDeg(-y, -x) - 180

\* calculateAngle(p1, p2, p3) in whole degrees, points given as <<x, y>>
calculateAngle(p1, p2, p3) ==
    LET radians == Atan2Deg(p3[2] - p2[2], p3[1] - p2[1])
                   - Atan2Deg(p1[2] - p2[2], p1[1] - p2[1])
        angle   == Abs(radians)
    IN  IF angle > 180 THEN 360 - angle ELSE angle

\* squared distance between two landmarks, in millionths
Dist2(a, b) == (a.x - b.x) * (a.x - b.x) + (a.y - b.y) * (a.y - b.y)

RECURSIVE SqrtIter(_, _)
SqrtIter(n, r) ==
    LET next == (r + n \div r) \div 2
    IN  IF next >= r THEN r ELSE SqrtIter(n, next)

\* floor of the square root
ISqrt(n) == IF n <= 0 THEN 0 ELSE SqrtIter(n, n)

\* Math.sqrt(dx^2 + dy^2) between two landmarks, in ten-thousandths
Dist(a, b) == ISqrt(100 * Dist2(a, b))

-----------------------------------------------------------------------------
(* Visibility Gate *)

\* mutant: the borders of the frame are excluded
inFrameExclusive(p) == p.x > -50 /\ p.x < 1050 /\ p.y > -50 /\ p.y < 1050

inFrame(p) == p.x >= -50 /\ p.x <= 1050 /\ p.y >= -50 /\ p.y <= 1050

vis(p) == p.visibility = NoVisibility \/ p.visibility > 50

isPersonReallyVisible(landmarks) ==
    IF landmarks = NoPose \/ landmarks.len < 13 THEN FALSE
    ELSE
      LET nose          == At(landmarks, NOSE)
          leftShoulder  == At(landmarks, LEFT_SHOULDER)
          rightShoulder == At(landmarks, RIGHT_SHOULDER)
      IN  /\ inFrame(nose) /\ inFrame(leftShoulder) /\ inFrame(rightShoulder)
          /\ vis(nose) /\ vis(leftShoulder) /\ vis(rightShoulder)
          \* shoulderDist < 0.02 returns false
          /\ ~ (Dist2(rightShoulder, leftShoulder) < 20 * 20)

-----------------------------------------------------------------------------
(* Metric Extractor: doubled midpoints in 1/2000 of the frame *)

earMidX2(lm) == At(lm, LEFT_EAR).x + At(lm, RIGHT_EAR).x

earMidY2(lm) == At(lm, LEFT_EAR).y + At(lm, RIGHT_EAR).y

shoulderMidX2(lm) == At(lm, LEFT_SHOULDER).x + At(lm, RIGHT_SHOULDER).x

\* 2 * shoulderHeight, also 2 * shoulderMidY
shoulderHeight2(lm) == At(lm, LEFT_SHOULDER).y + At(lm, RIGHT_SHOULDER).y

shoulderDist(lm) == Dist(At(lm, LEFT_SHOULDER), At(lm, RIGHT_SHOULDER))

\* angle at the ear midpoint between the point 0.1 above it and the shoulder midpoint
forwardNeckAngle(lm) ==
    calculateAngle(<< earMidX2(lm), earMidY2(lm) - 200 >>,
                   << earMidX2(lm), earMidY2(lm) >>,
                   << shoulderMidX2(lm), shoulderHeight2(lm) >>)

\* max(0, (noseDropRatio - 0.45) * 160) in hundredths of a degree; 0 while writing
chinDownPenalty(lm, isWriting) ==
    LET earShoulderVertDist2 == Max(20, shoulderHeight2(lm) - earMidY2(lm))
        noseDrop2            == 2 * At(lm, NOSE).y - earMidY2(lm)
    IN  IF isWriting THEN 0
        ELSE Max(0, (16000 * noseDrop2) \div earShoulderVertDist2 - 7200)

lateralTiltDeg(lm) ==
    LET dx    == Abs(At(lm, LEFT_EAR).x - At(lm, RIGHT_EAR).x)
        earDx == IF dx = 0 THEN 1 ELSE dx
        earDy == Abs(At(lm, LEFT_EAR).y - At(lm, RIGHT_EAR).y)
    IN  Atan2Deg(earDy, earDx)

\* forwardNeckAngle - chinDownPenalty - lateralTiltDeg * 0.6, in hundredths of a degree
neckAngle(lm, isWriting) ==
    100 * forwardNeckAngle(lm) - chinDownPenalty(lm, isWriting) - 60 * lateralTiltDeg(lm)

-----------------------------------------------------------------------------
(* Sensitivity-parameterised thresholds *)

\* the too-close ratio as << numerator, denominator >>
zThreshold(sens) ==
    IF sens >= 5 THEN << 112 + (10 - sens), 100 >>
    ELSE IF sens >= 4 THEN << 1050 + (10 - sens) * 8, 1000 >>
    ELSE << 1035 + 15 * (10 - sens), 900 >>

isSideways(lm) == Abs(2 * At(lm, NOSE).x - earMidX2(lm)) >= 140

useStrictSlouch(sens, sideways) == sens >= 6 \/ (sideways /\ sens >= 5)

\* the slouch margin in 1/18000 of the frame (2 for the doubled height, 9 for toleranceFactor)
slouchThreshold(sens, sideways) ==
    IF ~ useStrictSlouch(sens, sideways) THEN 540 + 140 * (10 - sens)
    ELSE IF sens = 6 THEN 9 * 110
    ELSE IF sens = 7 THEN 9 * 84
    ELSE 9 * (40 + (10 - sens) * 6)

\* mutant: the neck threshold grows by 5 degrees per level throughout
neckThresholdLinear(sens, isWriting) ==
    IF isWriting THEN 110 ELSE 130 + (sens - 1) * 5

\* degrees
neckThreshold(sens, isWriting) ==
    IF isWriting THEN 110
    ELSE IF sens <= 4 THEN 130 + (sens - 1) * 5
    ELSE IF sens = 5 THEN 150
    ELSE 152 + (sens - 6)

\* thousandths
headSideThreshold(sens, isWriting) ==
    IF isWriting THEN 200
    ELSE IF sens = 5 THEN 135
    ELSE 160 - (sens - 1) * 10

\* thousandths
raisedShoulderThreshold(sens) ==
    IF sens = 5 THEN 26 ELSE 28 - (sens - 1) * 2

\* thousandths of the baseline ear-to-shoulder gap
earShoulderRatio(sens) ==
    IF sens = 5 THEN 720 ELSE 1000 - (180 + (sens - 1) * 15)

-----------------------------------------------------------------------------
(* Classifier and Override Resolver, relative to a baseline b *)

\* the baseline block reads bLandmarks[11], [12], [7], [8] unguarded, and
\* bLandmarks[23], [24] when the current pose has both hips: a missing one
\* raises a TypeError
baselineReadRaises(lm, b) ==
    \/ ~ Has(b, LEFT_SHOULDER) \/ ~ Has(b, RIGHT_SHOULDER)
    \/ ~ Has(b, LEFT_EAR) \/ ~ Has(b, RIGHT_EAR)
    \/ /\ Has(lm, LEFT_HIP) /\ Has(lm, RIGHT_HIP)
       /\ (~ Has(b, LEFT_HIP) \/ ~ Has(b, RIGHT_HIP))

\* shoulderDist > bShoulderDist * zThreshold
tooClose(lm, b, sens) ==
    shoulderDist(lm) * zThreshold(sens)[2] > shoulderDist(b) * zThreshold(sens)[1]

\* shoulderHeight > bShoulderHeight + slouchThreshold
slouching(lm, b, sens) ==
    9 * shoulderHeight2(lm) > 9 * shoulderHeight2(b) + slouchThreshold(sens, isSideways(lm))

\* neckAngle < neckThreshold
neckBent(lm, sens, isWriting) ==
    neckAngle(lm, isWriting) < 100 * neckThreshold(sens, isWriting)

\* headSideOffset > headSideThreshold
headSideways(lm, sens, isWriting) ==
    Abs(2 * At(lm, NOSE).x - shoulderMidX2(lm)) > 2 * headSideThreshold(sens, isWriting)

\* mutant: the stand-up override of the earlier version, without hipsMovedUp
stoodUpTorsoOnly(lm, b) ==
    /\ Has(lm, LEFT_HIP) /\ Has(lm, RIGHT_HIP)
    /\ LET hipCenterY2  == At(lm, LEFT_HIP).y + At(lm, RIGHT_HIP).y
           bHipCenterY2 == At(b, LEFT_HIP).y + At(b, RIGHT_HIP).y
           torsoExtent2  == hipCenterY2 - shoulderHeight2(lm)
           bTorsoExtent2 == bHipCenterY2 - shoulderHeight2(b)
       IN  bTorsoExtent2 > 20 /\ torsoExtent2 * 100 > bTorsoExtent2 * 112

\* stand-up override: torso longer and hips moved up
stoodUp(lm, b) ==
    /\ Has(lm, LEFT_HIP) /\ Has(lm, RIGHT_HIP)
    /\ LET hipCenterY2  == At(lm, LEFT_HIP).y + At(lm, RIGHT_HIP).y
           bHipCenterY2 == At(b, LEFT_HIP).y + At(b, RIGHT_HIP).y
           torsoExtent2  == hipCenterY2 - shoulderHeight2(lm)
           bTorsoExtent2 == bHipCenterY2 - shoulderHeight2(b)
           hipsMovedUp   == hipCenterY2 < bHipCenterY2 - 80
       IN  bTorsoExtent2 > 20 /\ torsoExtent2 * 100 > bTorsoExtent2 * 112 /\ hipsMovedUp

\* move-away override: shoulderDist < bShoulderDist * 0.62
movedAway(lm, b) == shoulderDist(lm) * 100 < shoulderDist(b) * 62

\* mutant: the margin is added to the baseline height
isRaisedByHeightMarginAdded(lm, b, sens) ==
    shoulderHeight2(lm) < shoulderHeight2(b) + 2 * raisedShoulderThreshold(sens)

\* shoulderHeight < bShoulderHeight - raisedShoulderThreshold (line 531)
isRaisedByHeight(lm, b, sens) ==
    shoulderHeight2(lm) < shoulderHeight2(b) - 2 * raisedShoulderThreshold(sens)

isRaisedByEarDist(lm, b, sens) ==
    LET avgEarShoulderDist2  == shoulderHeight2(lm) - earMidY2(lm)
        bAvgEarShoulderDist2 == shoulderHeight2(b) - earMidY2(b)
    IN  /\ bAvgEarShoulderDist2 > 30
        /\ avgEarShoulderDist2 * 1000 < bAvgEarShoulderDist2 * earShoulderRatio(sens)

\* the flags as they stand after the classifier checks (lines 474-502)
classified(lm, b, sens, isWriting) ==
    Only({ [isWarning     |-> slouching(lm, b, sens) \/ neck,
            isAlarm       |-> tooClose(lm, b, sens),
            isNeckWarning |-> neck] :
           neck \in {neckBent(lm, sens, isWriting) \/ headSideways(lm, sens, isWriting)} })

\* mutant: the move-away override is left out
overriddenStandUpOnly(lm, b, f) ==
    IF stoodUp(lm, b)
    THEN [f EXCEPT !.isWarning = FALSE, !.isAlarm = FALSE]
    ELSE f

\* then the stand-up and move-away overrides (lines 504-524)
overridden(lm, b, f) ==
    IF stoodUp(lm, b) \/ movedAway(lm, b)
    THEN [f EXCEPT !.isWarning = FALSE, !.isAlarm = FALSE]
    ELSE f

\* mutant: raised shoulders count as a neck warning
recheckedFlagsNeck(lm, b, sens, f) ==
    Only({ [isWarning         |-> g.isWarning \/ raised,
            isAlarm           |-> g.isAlarm,
            isNeckWarning     |-> g.isNeckWarning \/ raised,
            isRaisedShoulders |-> raised] :
           g \in {f},
           raised \in {isRaisedByHeight(lm, b, sens) \/ isRaisedByEarDist(lm, b, sens)} })

\* then the raised-shoulder recheck (lines 526-544)
rechecked(lm, b, sens, f) ==
    Only({ [isWarning         |-> g.isWarning \/ raised,
            isAlarm           |-> g.isAlarm,
            isNeckWarning     |-> g.isNeckWarning,
            isRaisedShoulders |-> raised] :
           g \in {f},
           raised \in {isRaisedByHeight(lm, b, sens) \/ isRaisedByEarDist(lm, b, sens)} })

AllClear ==
    [isWarning |-> FALSE, isAlarm |-> FALSE, isNeckWarning |-> FALSE,
     isRaisedShoulders |-> FALSE]

\* mutant: the neck and head checks run outside the baseline block
baselineFlagsNeckWithoutBaseline(lm, b, sens, isWriting) ==
    IF b = NoBaseline
    THEN LET neck == neckBent(lm, sens, isWriting) \/ headSideways(lm, sens, isWriting)
         IN  [AllClear EXCEPT !.isWarning = neck, !.isNeckWarning = neck]
    ELSE rechecked(lm, b, sens, overridden(lm, b, classified(lm, b, sens, isWriting)))

\* mutant: the raised-shoulder recheck runs before the overrides
baselineFlagsRecheckFirst(lm, b, sens, isWriting) ==
    IF b = NoBaseline THEN AllClear
    ELSE overridden(lm, b, rechecked(lm, b, sens, classified(lm, b, sens, isWriting)))

\* the flags of the baseline block; all false without a baseline
baselineFlags(lm, b, sens, isWriting) ==
    IF b = NoBaseline THEN AllClear
    ELSE rechecked(lm, b, sens, overridden(lm, b, classified(lm, b, sens, isWriting)))

\* mutant: Writing Mode clears the alarm and the sub-flags but not the warning
writingOverrideKeepsWarning(f, isWriting) ==
    IF isWriting THEN [AllClear EXCEPT !.isWarning = f.isWarning] ELSE f

\* the Writing Mode override (lines 547-553)
writingOverride(f, isWriting) == IF isWriting THEN AllClear ELSE f

\* the frame's final flags
Flags(lm, b, sens, isWriting) ==
    writingOverride(baselineFlags(lm, b, sens, isWriting), isWriting)

\* Z_DISTANCE_DEFAULT * (bShoulderDist / shoulderDist) in hundredths, or the default
screenDistanceDisplay(lm, b) ==
    IF b # NoBaseline /\ shoulderDist(b) > 0
    THEN (5500 * shoulderDist(b)) \div shoulderDist(lm)
    ELSE 5500

\* mutant: isOptimal forgets the alarm
VisibleMetricsOptimalIgnoresAlarm(lm, b, isWriting, f) ==
    [neckAngle      |-> neckAngle(lm, isWriting),
     screenDistance |-> screenDistanceDisplay(lm, b),
     slouchFactor   |-> shoulderHeight2(lm),
     isOptimal      |-> ~ f.isWarning,
     isWarning      |-> f.isWarning,
     isAlarm        |-> f.isAlarm,
     isNeckWarning  |-> f.isNeckWarning,
     personVisible  |-> TRUE]

\* the record published for a visible pose whose flags are f (lines 571-580)
VisibleMetrics(lm, b, isWriting, f) ==
    [neckAngle      |-> neckAngle(lm, isWriting),
     screenDistance |-> screenDistanceDisplay(lm, b),
     slouchFactor   |-> shoulderHeight2(lm),
     isOptimal      |-> ~ f.isWarning /\ ~ f.isAlarm,
     isWarning      |-> f.isWarning,
     isAlarm        |-> f.isAlarm,
     isNeckWarning  |-> f.isNeckWarning,
     personVisible  |-> TRUE]

\* mutant: the neutral record shows the default distance
NeutralMetricsDefaultDistance ==
    [neckAngle      |-> 0,
     screenDistance |-> 5500,
     slouchFactor   |-> 0,
     isOptimal      |-> TRUE,
     isWarning      |-> FALSE,
     isAlarm        |-> FALSE,
     personVisible  |-> FALSE]

\* the record published when nobody is visible (lines 394-402 and 731-739):
\* it carries no isNeckWarning field
NeutralMetrics ==
    [neckAngle      |-> 0,
     screenDistance |-> 0,
     slouchFactor   |-> 0,
     isOptimal      |-> TRUE,
     isWarning      |-> FALSE,
     isAlarm        |-> FALSE,
     personVisible  |-> FALSE]

-----------------------------------------------------------------------------
(* The pipeline *)

\* the two most recent publish times, newest last
Remember(times, t) == IF Len(times) < 2 THEN Append(times, t) ELSE << times[2], t >>

\* mutant: the throttle opens at exactly 100 ms
throttleOpenInclusive(t, last) == t - last >= 100

\* the Update Throttler's test: now - lastUpdateRef.current > 100
throttleOpen(t, last) == t - last > 100

\* nothing is drawn
NoDrawing ==
    [background |-> "none", baseColor |-> "none", spine |-> "none",
     neck |-> "none", torso |-> "none"]

\* strokeStyle of a skeleton connection
connectionColor(isNeckConnection, isTorsoConnection, f, baseColor) ==
    IF isTorsoConnection /\ f.isRaisedShoulders THEN "alert"
    ELSE IF isNeckConnection /\ f.isNeckWarning THEN "alert"
    ELSE baseColor

\* what the overlay shows for a frame: the background always, the skeleton
\* of a visible pose with its colours, the spine when both hips are present
drawing(landmarks, visible, f, privacy, colour) ==
    LET baseColor == IF f.isAlarm THEN "alert" ELSE colour
        spineColor == IF f.isAlarm \/ (f.isWarning /\ ~ f.isRaisedShoulders)
                      THEN "alert" ELSE "neutral"
    IN  [background |-> IF privacy THEN "black" ELSE "image",
         baseColor  |-> IF visible THEN baseColor ELSE "none",
         spine      |-> IF visible /\ Has(landmarks, LEFT_HIP) /\ Has(landmarks, RIGHT_HIP)
                        THEN spineColor ELSE "none",
         neck       |-> IF visible THEN connectionColor(TRUE, FALSE, f, baseColor)
                        ELSE "none",
         torso      |-> IF visible THEN connectionColor(FALSE, TRUE, f, baseColor)
                        ELSE "none"]

\* mutant: the privacy mode switches the classification off
processFramePrivacyUnjudged(results, t, b, last, sens, isWriting, privacy, colour) ==
    Only({ Only({ Only({
        LET \* the skeleton loop reads landmarks[0..32] after the publish
            raisesLate == visible /\ ~ raisesEarly /\ results.len < FullLength
            publishes  == ~ raisesEarly /\ throttleOpen(t, last)
            judged     == visible /\ ~ raisesEarly
        IN  [events |-> IF publishes THEN 1 ELSE 0,
             event  |-> IF ~ publishes THEN NoMetrics
                        ELSE IF visible THEN VisibleMetrics(results, b, isWriting, f)
                        ELSE NeutralMetrics,
             raised |-> raisesEarly \/ raisesLate,
             drawn  |-> IF raisesEarly
                        THEN [NoDrawing EXCEPT
                                !.background = IF privacy THEN "black" ELSE "image"]
                        ELSE drawing(results, judged, f, privacy, colour)] :
        f \in {IF visible /\ ~ raisesEarly /\ ~ privacy THEN Flags(results, b, sens, isWriting)
               ELSE AllClear} }) :
        raisesEarly \in {visible /\ b # NoBaseline /\ baselineReadRaises(results, b)} }) :
        visible \in {isPersonReallyVisible(results)} })

\* what onResults does with the results of one frame at time t, from the
\* refs it reads: the event it publishes if any, whether it raises, and
\* what it draws
processFrame(results, t, b, last, sens, isWriting, privacy, colour) ==
    Only({ Only({ Only({
        LET \* the skeleton loop reads landmarks[0..32] after the publish
            raisesLate == visible /\ ~ raisesEarly /\ results.len < FullLength
            publishes  == ~ raisesEarly /\ throttleOpen(t, last)
            judged     == visible /\ ~ raisesEarly
        IN  [events |-> IF publishes THEN 1 ELSE 0,
             event  |-> IF ~ publishes THEN NoMetrics
                        ELSE IF visible THEN VisibleMetrics(results, b, isWriting, f)
                        ELSE NeutralMetrics,
             raised |-> raisesEarly \/ raisesLate,
             drawn  |-> IF raisesEarly
                        THEN [NoDrawing EXCEPT
                                !.background = IF privacy THEN "black" ELSE "image"]
                        ELSE drawing(results, judged, f, privacy, colour)] :
        f \in {IF visible /\ ~ raisesEarly THEN Flags(results, b, sens, isWriting)
               ELSE AllClear} }) :
        raisesEarly \in {visible /\ b # NoBaseline /\ baselineReadRaises(results, b)} }) :
        visible \in {isPersonReallyVisible(results)} })

\* no second run: only the comparison of two runs follows one
NoTwin == [absent |-> "twin"]

\* the second run receives the same frame at the same time
twinDelivered(results, t) ==
    IF twin = NoTwin THEN twin
    ELSE IF twin.listener = "onResults"
    THEN Only({ [twin EXCEPT !.events = o.events,
                             !.metrics = IF o.events = 1 THEN o.event ELSE @,
                             !.lastUpdateRef = IF o.events = 1 THEN t ELSE @] :
                o \in {processFrame(results, t, twin.baselineRef,
                                    twin.lastUpdateRef, sensitivity, writingMode,
                                    twin.privacyBlur, twin.skeletonColor)} })
    ELSE IF results # NoPose
         THEN [twin EXCEPT !.events = 0,
                           !.baselineRef = results,
                           !.calibrationCount = @ + 1,
                           !.listener = "onResults"]
         ELSE [twin EXCEPT !.events = 0]

\* App is not followed: only the runs of the whole application follow it
NoApp == [absent |-> "app"]

\* null in a ref or state of App that holds a number
Null == << >>

\* the refs and state of App after it has mounted: the timer, the alarm's
\* warning start time, the session counters and summary, the calibrate
\* reminder and its pending timeout, what the last render saw, and as
\* observers the sounds played and whether an event without warning was
\* published since the warning start time was set
AppMounted ==
    [timer                 |-> 60,
     warningStartTimeRef   |-> Null,
     sessionGoodFramesRef  |-> 0,
     sessionTotalFramesRef |-> 0,
     sessionSummary        |-> Null,
     calibrationCountRef   |-> 0,
     showCalibrateReminder |-> FALSE,
     reminderTimeout       |-> Null,
     metricsSet            |-> FALSE,
     rendered              |-> [isActive |-> FALSE, calibrationCount |-> 0,
                                timer |-> 60],
     sounds                |-> << >>,
     unwarnedSinceStart    |-> FALSE]

\* the event counts as a warning for the alarm
warned(event) ==
    /\ event # NoMetrics
    /\ event.personVisible
    /\ event.isWarning \/ event.isAlarm

\* mutant: the session counters count every event
handleMetricsUpdateCountsAll(event) ==
    IF app = NoApp THEN app
    ELSE [app EXCEPT
            !.metricsSet = TRUE,
            !.sessionTotalFramesRef = @ + 1,
            !.sessionGoodFramesRef =
                IF ~ event.isWarning /\ ~ event.isAlarm THEN @ + 1 ELSE @,
            !.unwarnedSinceStart =
                @ \/ (app.warningStartTimeRef # Null /\ ~ warned(event))]

\* handleMetricsUpdate: setMetrics(newMetrics) and the session counters
handleMetricsUpdate(event) ==
    IF app = NoApp THEN app
    ELSE [app EXCEPT
            !.metricsSet = TRUE,
            !.sessionTotalFramesRef = IF event.personVisible THEN @ + 1 ELSE @,
            !.sessionGoodFramesRef =
                IF event.personVisible /\ ~ event.isWarning /\ ~ event.isAlarm
                THEN @ + 1 ELSE @,
            !.unwarnedSinceStart =
                @ \/ (app.warningStartTimeRef # Null /\ ~ warned(event))]

\* a state update of App or of the hook waits for React to render
RenderPending ==
    /\ app # NoApp
    /\ \/ app.metricsSet
       \/ app.rendered # [isActive |-> isActive,
                          calibrationCount |-> calibrationCount,
                          timer |-> app.timer]

\* the run ends at the horizon of its clock
Deadline == Epoch + (IF app = NoApp THEN Horizon ELSE AppHorizon)

\* a frame can be delivered at time t: React renders a pending update
\* before the next frame arrives, and a timeout due before t runs before it
FrameDue(t) ==
    /\ t <= Deadline
    /\ ~ RenderPending
    /\ IF app = NoApp THEN TRUE
       ELSE IF app.reminderTimeout = Null THEN TRUE
       ELSE t <= app.reminderTimeout[1]

\* onMetricsUpdateRef.current(event); lastUpdateRef.current = now
Publish(event, t) ==
    /\ metrics' = event
    /\ lastUpdateRef' = t
    /\ publishedAt' = Remember(publishedAt, t)

\* the frame's branch publishes nothing
Silent == UNCHANGED << metrics, lastUpdateRef, publishedAt >>

\* the refs and React state of the pipeline after construction
Constructed ==
    /\ baselineRef = NoBaseline
    /\ baselineSession = 0
    /\ listener = "onResults"
    /\ calibrationCount = 0
    /\ sensitivity = 5
    /\ writingMode \in BOOLEAN
    /\ now = Epoch
    /\ lastUpdateRef = 0
    /\ metrics = NoMetrics
    /\ frame = NoFrame
    /\ publishedAt = << >>
    /\ skeletonColor = "green"

\* the second run after construction, with its privacy mode, and with the
\* baseline b where the first run starts with one
TwinConstructed(privacy, b) ==
    [privacyBlur      |-> privacy,
     skeletonColor    |-> "green",
     listener         |-> "onResults",
     baselineRef      |-> b,
     calibrationCount |-> IF b = NoBaseline THEN 0 ELSE 1,
     lastUpdateRef    |-> 0,
     metrics          |-> NoMetrics,
     events           |-> 0]

\* no camera yet
CameraIdle ==
    /\ cameraRef = "null"
    /\ isActive = FALSE
    /\ camera = "none"
    /\ startPc = "idle"
    /\ stopPc = "idle"
    /\ session = 0

\* the first startCamera() has completed
CameraStarted ==
    /\ cameraRef = "camera"
    /\ isActive = TRUE
    /\ camera = "on"
    /\ startPc = "idle"
    /\ stopPc = "idle"
    /\ session = 1

\* the state after construction
Init ==
    /\ Constructed
    /\ privacyBlur \in BOOLEAN
    /\ twin = NoTwin
    /\ app = NoApp
    /\ CameraIdle

\* the state after construction and the first camera start
InitStarted ==
    /\ Constructed
    /\ privacyBlur = FALSE
    /\ twin = NoTwin
    /\ app = NoApp
    /\ CameraStarted

\* a frame delivered to the hook's own listener, gap ms after the previous one
OnResults(results, gap) ==
    /\ camera = "on"
    /\ listener = "onResults"
    /\ FrameDue(now + gap)
    /\ now' = now + gap
    /\ \E t \in {now + gap} :
       \E o \in {processFrame(results, t, baselineRef, lastUpdateRef, sensitivity,
                              writingMode, privacyBlur, skeletonColor)} :
           /\ IF o.events = 1 THEN Publish(o.event, t) ELSE Silent
           /\ frame' = [results  |-> results,
                        gap      |-> gap,
                        handler  |-> "onResults",
                        session  |-> session,
                        events   |-> o.events,
                        raised   |-> o.raised,
                        captured |-> FALSE,
                        drawn    |-> o.drawn]
           /\ twin' = twinDelivered(results, t)
           /\ app' = IF o.events = 1 THEN handleMetricsUpdate(o.event) ELSE app
    /\ UNCHANGED << baselineRef, listener, calibrationCount, sensitivity, writingMode >>
    /\ UNCHANGED << privacyBlur, skeletonColor, cameraVars, baselineSession >>

\* mutant: the capture does not restore the original listener
OnCaptureStaysArmed(results, gap) ==
    /\ camera = "on"
    /\ listener = "capture"
    /\ FrameDue(now + gap)
    /\ now' = now + gap
    /\ IF results # NoPose
       THEN /\ baselineRef' = results
            /\ baselineSession' = session
            /\ calibrationCount' = calibrationCount + 1
            /\ UNCHANGED listener
       ELSE UNCHANGED << baselineRef, baselineSession, calibrationCount, listener >>
    /\ frame' = [results  |-> results,
                 gap      |-> gap,
                 handler  |-> "capture",
                 session  |-> session,
                 events   |-> 0,
                 raised   |-> FALSE,
                 captured |-> results # NoPose,
                 drawn    |-> NoDrawing]
    /\ twin' = twinDelivered(results, now + gap)
    /\ metrics' = metrics /\ lastUpdateRef' = lastUpdateRef /\ publishedAt' = publishedAt
    /\ UNCHANGED << sensitivity, writingMode, privacyBlur, skeletonColor, cameraVars,
                    app >>

\* a frame delivered to the listener calibrate() registered
OnCapture(results, gap) ==
    /\ camera = "on"
    /\ listener = "capture"
    /\ FrameDue(now + gap)
    /\ now' = now + gap
    /\ IF results # NoPose
       THEN /\ baselineRef' = results
            /\ baselineSession' = session
            /\ calibrationCount' = calibrationCount + 1
            /\ listener' = "onResults"
       ELSE UNCHANGED << baselineRef, baselineSession, calibrationCount, listener >>
    /\ frame' = [results  |-> results,
                 gap      |-> gap,
                 handler  |-> "capture",
                 session  |-> session,
                 events   |-> 0,
                 raised   |-> FALSE,
                 captured |-> results # NoPose,
                 drawn    |-> NoDrawing]
    /\ twin' = twinDelivered(results, now + gap)
    /\ Silent
    /\ UNCHANGED << sensitivity, writingMode, privacyBlur, skeletonColor, cameraVars,
                    app >>

\* calibrate(): replace the listener by the one-shot capture; the button
\* is disabled while isActive is false
calibrate ==
    /\ isActive
    /\ calibrationCount < MaxCalibrations
    /\ listener' = "capture"
    /\ twin' = IF twin = NoTwin THEN twin ELSE [twin EXCEPT !.listener = "capture"]
    /\ UNCHANGED << baselineRef, calibrationCount, sensitivity, writingMode,
                    now, lastUpdateRef, metrics, frame, publishedAt >>
    /\ UNCHANGED << privacyBlur, skeletonColor, cameraVars, baselineSession, app >>

\* a sensitivity button; the buttons are disabled while isActive is false
setSensitivity(level) ==
    /\ isActive
    /\ sensitivity' = level
    /\ UNCHANGED << baselineRef, listener, calibrationCount, writingMode,
                    now, lastUpdateRef, metrics, frame, publishedAt >>
    /\ UNCHANGED << privacyBlur, skeletonColor, twin, cameraVars, baselineSession, app >>

setWritingMode ==
    /\ writingMode' = ~ writingMode
    /\ UNCHANGED << baselineRef, listener, calibrationCount, sensitivity,
                    now, lastUpdateRef, metrics, frame, publishedAt >>
    /\ UNCHANGED << privacyBlur, skeletonColor, twin, cameraVars, baselineSession, app >>

\* the incognito button
setPrivacyBlur ==
    /\ privacyBlur' = ~ privacyBlur
    /\ UNCHANGED << baselineRef, listener, calibrationCount, sensitivity,
                    writingMode, now, lastUpdateRef, metrics, frame, publishedAt >>
    /\ UNCHANGED << skeletonColor, twin, cameraVars, baselineSession, app >>

\* the colours of the skeleton colour picker
SkeletonColors == {"green", "blue", "lightblue", "yellow", "white"}

\* a button of the skeleton colour picker
setSkeletonColor(key) ==
    /\ skeletonColor' = key
    /\ UNCHANGED << baselineRef, listener, calibrationCount, sensitivity,
                    writingMode, now, lastUpdateRef, metrics, frame, publishedAt >>
    /\ UNCHANGED << privacyBlur, twin, cameraVars, baselineSession, app >>

\* the same buttons in the second run
twinSetPrivacyBlur ==
    /\ twin' = [twin EXCEPT !.privacyBlur = ~ @]
    /\ UNCHANGED << baselineRef, listener, calibrationCount, sensitivity,
                    writingMode, now, lastUpdateRef, metrics, frame, publishedAt >>
    /\ UNCHANGED << privacyBlur, skeletonColor, cameraVars, baselineSession, app >>

twinSetSkeletonColor(key) ==
    /\ twin' = [twin EXCEPT !.skeletonColor = key]
    /\ UNCHANGED << baselineRef, listener, calibrationCount, sensitivity,
                    writingMode, now, lastUpdateRef, metrics, frame, publishedAt >>
    /\ UNCHANGED << privacyBlur, skeletonColor, cameraVars, baselineSession, app >>

\* the buttons of the alarm timer, in seconds
Timers == {5, 10, 15, 30, 45, 60, 90, 120, 180, 300}

\* a button of the alarm timer
setTimer(val) ==
    /\ app # NoApp
    /\ app' = [app EXCEPT !.timer = val]
    /\ UNCHANGED << baselineRef, listener, calibrationCount, sensitivity,
                    writingMode, now, lastUpdateRef, metrics, frame, publishedAt >>
    /\ UNCHANGED << privacyBlur, skeletonColor, twin, cameraVars, baselineSession >>

\* mutant: an event without warning leaves the warning start time alone
alarmEffectKeepsStart(a, m, t) ==
    IF ~ warned(m)
    THEN a
    ELSE IF a.warningStartTimeRef = Null
    THEN [a EXCEPT !.warningStartTimeRef = << t >>,
                   !.unwarnedSinceStart = FALSE]
    ELSE IF t - a.warningStartTimeRef[1] >= 1000 * a.timer
    THEN [a EXCEPT !.sounds = Append(@, [at |-> t, timer |-> a.timer]),
                   !.warningStartTimeRef = << t >>,
                   !.unwarnedSinceStart = FALSE]
    ELSE a

\* the notification and sound effect, run with the metrics m at time t
alarmEffect(a, m, t) ==
    IF ~ warned(m)
    THEN [a EXCEPT !.warningStartTimeRef = Null,
                   !.unwarnedSinceStart = FALSE]
    ELSE IF a.warningStartTimeRef = Null
    THEN [a EXCEPT !.warningStartTimeRef = << t >>,
                   !.unwarnedSinceStart = FALSE]
    ELSE IF t - a.warningStartTimeRef[1] >= 1000 * a.timer
    THEN [a EXCEPT !.sounds = Append(@, [at |-> t, timer |-> a.timer]),
                   !.warningStartTimeRef = << t >>,
                   !.unwarnedSinceStart = FALSE]
    ELSE a

\* the calibration feedback effect, run when calibrationCount has changed
calibrationEffect(a) ==
    IF calibrationCount > 0 THEN [a EXCEPT !.showCalibrateReminder = FALSE] ELSE a

\* the delay of the calibrate reminder
ReminderDelay == 10000

\* the reminder effect, run when isActive has changed: the pending timeout
\* is cleared, and a new one is set while the camera is active
reminderEffect(a, t) ==
    IF ~ isActive
    THEN [a EXCEPT !.showCalibrateReminder = FALSE, !.reminderTimeout = Null]
    ELSE [a EXCEPT !.reminderTimeout = << t + ReminderDelay >>]

\* React renders App: calibrationCountRef takes the state's value and the
\* effects whose dependencies have changed run in their order
render ==
    /\ RenderPending
    /\ LET a0 == [app EXCEPT !.calibrationCountRef = calibrationCount,
                             !.metricsSet = FALSE,
                             !.rendered = [isActive |-> isActive,
                                           calibrationCount |-> calibrationCount,
                                           timer |-> app.timer]]
           a1 == IF calibrationCount # app.rendered.calibrationCount
                 THEN calibrationEffect(a0) ELSE a0
           a2 == IF isActive # app.rendered.isActive
                 THEN reminderEffect(a1, now) ELSE a1
       IN  app' = IF app.metricsSet \/ app.timer # app.rendered.timer
                  THEN alarmEffect(a2, metrics, now) ELSE a2
    /\ UNCHANGED << baselineRef, listener, calibrationCount, sensitivity,
                    writingMode, now, lastUpdateRef, metrics, frame, publishedAt >>
    /\ UNCHANGED << privacyBlur, skeletonColor, twin, cameraVars, baselineSession >>

\* the timeout of the calibrate reminder runs
reminderTimeout ==
    /\ app # NoApp
    /\ app.reminderTimeout # Null
    /\ now >= app.reminderTimeout[1]
    /\ app' = [app EXCEPT !.reminderTimeout = Null,
                          !.showCalibrateReminder =
                              IF app.calibrationCountRef = 0 THEN TRUE ELSE @]
    /\ UNCHANGED << baselineRef, listener, calibrationCount, sensitivity,
                    writingMode, now, lastUpdateRef, metrics, frame, publishedAt >>
    /\ UNCHANGED << privacyBlur, skeletonColor, twin, cameraVars, baselineSession >>

\* what no camera operation touches
CameraLeaves ==
    UNCHANGED << baselineRef, listener, calibrationCount, sensitivity,
                 writingMode, now, lastUpdateRef, metrics, frame, publishedAt,
                 privacyBlur, skeletonColor, twin, baselineSession, app >>

\* startCamera() up to its first await: an existing camera is stopped first,
\* otherwise a new Camera is created and started; the start button is shown
\* while isActive is false, and one call is in flight at a time
startCameraCalled ==
    /\ ~ isActive
    /\ startPc = "idle"
    /\ session < MaxSessions
    /\ IF cameraRef # "null"
       THEN /\ camera' = "off"
            /\ startPc' = "awaitStop"
            /\ UNCHANGED cameraRef
       ELSE /\ cameraRef' = "camera"
            /\ camera' = "starting"
            /\ startPc' = "awaitStart"
    /\ UNCHANGED << isActive, stopPc, session >>

\* startCamera() called on its own, as the "try again" button does
startCamera ==
    /\ startCameraCalled
    /\ CameraLeaves

\* the start button: the session counters and the summary are reset, Writing
\* Mode is switched off and startCamera() is called
startSession ==
    /\ app # NoApp
    /\ startCameraCalled
    /\ writingMode' = FALSE
    /\ app' = [app EXCEPT !.sessionGoodFramesRef = 0,
                          !.sessionTotalFramesRef = 0,
                          !.sessionSummary = Null]
    /\ UNCHANGED << baselineRef, listener, calibrationCount, sensitivity, now,
                    lastUpdateRef, metrics, frame, publishedAt, privacyBlur,
                    skeletonColor, twin, baselineSession >>

\* startCamera() after the old camera has stopped: create and start a Camera
startCameraStopped ==
    /\ startPc = "awaitStop"
    /\ cameraRef' = "camera"
    /\ camera' = "starting"
    /\ startPc' = "awaitStart"
    /\ UNCHANGED << isActive, stopPc, session >>
    /\ CameraLeaves

\* startCamera() after start() has resolved: setIsActive(true); a camera
\* whose stop() was called while it was starting may or may not deliver frames
startCameraStarted ==
    /\ startPc = "awaitStart"
    /\ \E delivers \in (IF camera = "aborted" THEN {"on", "off"} ELSE {"on"}) :
          camera' = delivers
    /\ isActive' = TRUE
    /\ session' = session + 1
    /\ startPc' = "idle"
    /\ UNCHANGED << cameraRef, stopPc >>
    /\ CameraLeaves

\* startCamera() after start() has rejected: setError, setIsActive(false)
startCameraFailed ==
    /\ startPc = "awaitStart"
    /\ camera' = "off"
    /\ isActive' = FALSE
    /\ startPc' = "idle"
    /\ UNCHANGED << cameraRef, stopPc, session >>
    /\ CameraLeaves

\* mutant: stopping the camera puts the hook's own listener back
stopCameraDisarms ==
    /\ stopPc = "idle"
    /\ cameraRef # "null"
    /\ camera' = (IF camera = "starting" THEN "aborted"
                  ELSE IF camera = "aborted" THEN "aborted" ELSE "off")
    /\ stopPc' = "awaitStop"
    /\ listener' = "onResults"
    /\ UNCHANGED << cameraRef, isActive, startPc, session >>
    /\ UNCHANGED << baselineRef, calibrationCount, sensitivity, writingMode, now,
                    lastUpdateRef, metrics, frame, publishedAt, privacyBlur,
                    skeletonColor, twin, baselineSession, app >>

\* stopCamera() up to its await: stop() is called on the camera held
stopCameraCalled ==
    /\ stopPc = "idle"
    /\ cameraRef # "null"
    /\ camera' = (IF camera = "starting" THEN "aborted"
                  ELSE IF camera = "aborted" THEN "aborted" ELSE "off")
    /\ stopPc' = "awaitStop"
    /\ UNCHANGED << cameraRef, isActive, startPc, session >>

\* stopCamera() called on its own
stopCamera ==
    /\ stopCameraCalled
    /\ CameraLeaves

\* Math.round((good / total) * 100), or 0 without frames
percent(good, total) ==
    IF total > 0 THEN (200 * good + total) \div (2 * total) ELSE 0

\* the end button: stopCamera() is called, which does nothing without a
\* camera, and the session summary is computed from the counters
endSession ==
    /\ app # NoApp
    /\ stopPc = "idle"
    /\ IF cameraRef # "null" THEN stopCameraCalled ELSE UNCHANGED cameraVars
    /\ app' = [app EXCEPT !.sessionSummary =
                   << percent(app.sessionGoodFramesRef, app.sessionTotalFramesRef) >>]
    /\ UNCHANGED << baselineRef, listener, calibrationCount, sensitivity,
                    writingMode, now, lastUpdateRef, metrics, frame, publishedAt,
                    privacyBlur, skeletonColor, twin, baselineSession >>

\* mutant: stopping the camera also forgets the baseline
stopCameraStoppedClearsBaseline ==
    /\ stopPc = "awaitStop"
    /\ cameraRef' = "null"
    /\ isActive' = FALSE
    /\ stopPc' = "idle"
    /\ baselineRef' = NoBaseline
    /\ baselineSession' = 0
    /\ UNCHANGED << camera, startPc, session >>
    /\ UNCHANGED << listener, calibrationCount, sensitivity, writingMode, now,
                    lastUpdateRef, metrics, frame, publishedAt, privacyBlur,
                    skeletonColor, twin, app >>

\* stopCamera() after its await: cameraRef.current = null, setIsActive(false)
stopCameraStopped ==
    /\ stopPc = "awaitStop"
    /\ cameraRef' = "null"
    /\ isActive' = FALSE
    /\ stopPc' = "idle"
    /\ UNCHANGED << camera, startPc, session >>
    /\ CameraLeaves

Next ==
    \/ \E results \in PipelinePoses \cup {NoPose}, gap \in FrameGaps :
          OnResults(results, gap)
    \/ \E results \in PipelinePoses \cup {NoPose}, gap \in FrameGaps :
          OnCapture(results, gap)
    \/ calibrate
    \/ \E level \in PipelineLevels : setSensitivity(level)
    \/ setWritingMode

\* the pipeline while the first camera session runs
Spec == InitStarted /\ [][Next]_vars

-----------------------------------------------------------------------------
(* The whole hook: camera sessions, settings and frames 100 ms apart *)

\* the poses delivered across camera sessions
SessionPoses == {Upright, FarRaised}

SessionGaps == {100}

SessionLevels == {10}

SessionColors == {"green", "white"}

NextSession ==
    \/ \E results \in SessionPoses \cup {NoPose}, gap \in SessionGaps :
          OnResults(results, gap)
    \/ \E results \in SessionPoses \cup {NoPose}, gap \in SessionGaps :
          OnCapture(results, gap)
    \/ calibrate
    \/ \E level \in SessionLevels : setSensitivity(level)
    \/ setWritingMode
    \/ setPrivacyBlur
    \/ \E key \in SessionColors : setSkeletonColor(key)
    \/ startCamera
    \/ startCameraStopped
    \/ startCameraStarted
    \/ startCameraFailed
    \/ stopCamera
    \/ stopCameraStopped

SpecSession == Init /\ [][NextSession]_vars

-----------------------------------------------------------------------------
(* The whole application: the hook with App's session counters, alarm timer
   and calibrate reminder, frames seconds apart *)

AppPoses == {Upright, Slouched, LowVis}

AppGaps == {5000}

AppTimers == {5, 10}

InitApp ==
    /\ Constructed
    /\ privacyBlur = FALSE
    /\ twin = NoTwin
    /\ app = AppMounted
    /\ CameraIdle

NextApp ==
    \/ \E results \in AppPoses, gap \in AppGaps : OnResults(results, gap)
    \/ \E results \in AppPoses, gap \in AppGaps : OnCapture(results, gap)
    \/ calibrate
    \/ startSession
    \/ startCameraStarted
    \/ endSession
    \/ stopCameraStopped
    \/ \E val \in AppTimers : setTimer(val)
    \/ render
    \/ reminderTimeout

SpecApp == InitApp /\ [][NextApp]_vars

-----------------------------------------------------------------------------
(* Two runs of the hook side by side: the same frames, clock, calibrate()
   calls, sensitivity and Writing Mode, each with its own privacy mode and
   skeleton colour *)

TwinPoses == {NeckForward, NoPose}

TwinLevels == {10}

TwinColors == {"white"}

InitTwin ==
    /\ Constructed
    /\ privacyBlur \in BOOLEAN
    /\ twin \in {TwinConstructed(privacy, NoBaseline) : privacy \in BOOLEAN}
    /\ app = NoApp
    /\ CameraStarted

NextTwin ==
    \/ \E results \in TwinPoses, gap \in FrameGaps : OnResults(results, gap)
    \/ \E results \in TwinPoses, gap \in FrameGaps : OnCapture(results, gap)
    \/ calibrate
    \/ \E level \in TwinLevels : setSensitivity(level)
    \/ setWritingMode
    \/ setPrivacyBlur
    \/ \E key \in TwinColors : setSkeletonColor(key)
    \/ twinSetPrivacyBlur
    \/ \E key \in TwinColors : twinSetSkeletonColor(key)

SpecTwin == InitTwin /\ [][NextTwin]_vars

-----------------------------------------------------------------------------
(* The classifier alone: every baseline, level and mode, frames 150 ms apart *)

InitClassify ==
    /\ baselineRef \in AllPoses \cup {NoBaseline}
    /\ baselineSession = (IF baselineRef = NoBaseline THEN 0 ELSE 1)
    /\ privacyBlur = FALSE
    /\ skeletonColor = "green"
    /\ twin = NoTwin
    /\ app = NoApp
    /\ CameraStarted
    /\ listener = "onResults"
    /\ calibrationCount = IF baselineRef = NoBaseline THEN 0 ELSE 1
    /\ sensitivity \in SensitivityLevels
    /\ writingMode \in BOOLEAN
    /\ now = Epoch
    /\ lastUpdateRef = 0
    /\ metrics = NoMetrics
    /\ frame = NoFrame
    /\ publishedAt = << >>

NextClassify == \E results \in AllPoses : OnResults(results, 150)

SpecClassify == InitClassify /\ [][NextClassify]_vars

-----------------------------------------------------------------------------
(* The Visibility Gate alone: poses at the borders of each of its rules *)

\* the landmarks the gate reads
GateIdx == {NOSE, LEFT_SHOULDER, RIGHT_SHOULDER}

\* coordinates on and just outside the border of the frame
GateCoordinates == {-51, -50, 1050, 1051}

\* visibility absent, at, just above and just below 0.5
GateVisibilities == {NoVisibility, 49, 50, 51}

\* offsets of the right shoulder from the left one, around a distance of 0.02
GateOffsets == { <<20, 0>>, <<19, 0>>, <<16, 12>>, <<16, 11>>, <<0, 20>>, <<0, 0>> }

\* numbers of landmarks around 13
GateLengths == {0, 12, 13, 14}

\* the upright pose with one landmark replaced
With(pose, i, p) == [pose EXCEPT !.lm[i] = p]

GatePoses ==
    {With(Upright, i, [At(Upright, i) EXCEPT !.x = c]) :
        i \in GateIdx, c \in GateCoordinates}
    \cup {With(Upright, i, [At(Upright, i) EXCEPT !.y = c]) :
        i \in GateIdx, c \in GateCoordinates}
    \cup {With(Upright, i, [At(Upright, i) EXCEPT !.visibility = v]) :
        i \in GateIdx, v \in GateVisibilities}
    \cup {With(Upright, RIGHT_SHOULDER,
               Lm(At(Upright, LEFT_SHOULDER).x - d[1],
                  At(Upright, LEFT_SHOULDER).y - d[2], NoVisibility)) :
        d \in GateOffsets}
    \cup {Body(n, 500, 300, 99, 500, 300, 300, 500, 150, 900) : n \in GateLengths}

NextGate ==
    \E results \in GatePoses \cup {NoPose}, gap \in FrameGaps :
        OnResults(results, gap)

SpecGate == InitStarted /\ [][NextGate]_vars

-----------------------------------------------------------------------------
(* Properties *)

\* the last frame was answered by an event for a visible pose, so that
\* metrics is that frame's event
VisibleEvent ==
    /\ frame # NoFrame
    /\ frame.events = 1
    /\ metrics.personVisible

\* C1: every published event with personVisible = true has
\* isOptimal = ~(isWarning \/ isAlarm)
C1_OptimalIffNoFlag ==
    (metrics # NoMetrics /\ metrics.personVisible)
        => (metrics.isOptimal <=> ~ (metrics.isWarning \/ metrics.isAlarm))

\* C1 witness: an event for a visible pose that is an alarm and no warning
C1_Witness ==
    /\ metrics # NoMetrics
    /\ metrics.personVisible
    /\ metrics.isAlarm
    /\ ~ metrics.isWarning
    /\ ~ metrics.isOptimal

\* a flag that is false or not set
Unset(m, flag) == flag \notin DOMAIN m \/ m[flag] = FALSE

C3_NoBaselineNoWarning ==
    /\ (calibrationCount = 0 <=> baselineRef = NoBaseline)
    /\ (baselineRef = NoBaseline /\ metrics # NoMetrics /\ metrics.personVisible)
          => (~ metrics.isWarning /\ ~ metrics.isAlarm)

\* C3 witness: without a baseline, at the strictest level and outside Writing
\* Mode, a pose with a bent neck is published after an earlier event
C3_Witness ==
    /\ baselineRef = NoBaseline
    /\ VisibleEvent
    /\ frame.results = NeckForward
    /\ sensitivity = 10
    /\ ~ writingMode
    /\ Len(publishedAt) = 2
    /\ neckBent(frame.results, sensitivity, writingMode)

\* C4: any two published events are more than 100 ms apart, whichever
\* branches published them
C4_ThrottleBound ==
    Len(publishedAt) = 2 => publishedAt[2] - publishedAt[1] > 100

\* C4 witness: after two events, a frame arriving 100 ms after the last
\* event is processed and publishes nothing
C4_Witness ==
    /\ Len(publishedAt) = 2
    /\ frame # NoFrame
    /\ frame.handler = "onResults"
    /\ ~ frame.raised
    /\ frame.events = 0
    /\ now - publishedAt[2] = 100

\* C5 as stated: a frame delivered 150 ms after the previous one produces
\* exactly one published event
C5_AsClaimed ==
    (frame # NoFrame /\ frame.gap = 150) => frame.events = 1

\* C6: the baseline changes only when the armed listener receives a pose;
\* that frame stores the pose, counts one capture and disarms, whatever the
\* number of calibrate() calls before it
C6_OneShot ==
    [][ /\ (baselineRef' # baselineRef)
            => (listener = "capture" /\ frame'.captured)
        /\ (listener = "capture" /\ frame' # frame /\ frame'.results # NoPose)
            => /\ baselineRef' = frame'.results
               /\ calibrationCount' = calibrationCount + 1
               /\ listener' = "onResults"
        /\ (listener = "capture" /\ frame' # frame /\ frame'.results = NoPose)
            => /\ baselineRef' = baselineRef
               /\ calibrationCount' = calibrationCount
               /\ listener' = "capture"
        /\ (listener = "onResults")
            => (baselineRef' = baselineRef /\ calibrationCount' = calibrationCount)
      ]_vars

\* C6 witness: after one capture a different pose has been processed and
\* the baseline is still the captured one
C6_Witness ==
    /\ calibrationCount = 1
    /\ listener = "onResults"
    /\ frame # NoFrame
    /\ frame.handler = "onResults"
    /\ frame.results # NoPose
    /\ frame.results # baselineRef
    /\ baselineRef = Upright

\* C7 as stated: the stored baseline always passes the Visibility Gate
C7_AsClaimed ==
    baselineRef # NoBaseline => isPersonReallyVisible(baselineRef)

\* the last frame was published for a visible pose and judged against the
\* stored baseline
JudgedEvent == VisibleEvent /\ baselineRef # NoBaseline

\* C8 as stated: a visible pose whose shoulder span is below 0.62 times the
\* baseline span is published with isWarning and isAlarm false
C8_AsClaimed ==
    (JudgedEvent /\ movedAway(frame.results, baselineRef))
        => (~ metrics.isWarning /\ ~ metrics.isAlarm)

\* C8 amended: such a pose is published with isAlarm false, and with
\* isWarning true exactly when the raised-shoulder recheck fires outside
\* Writing Mode
C8_MovedAwayClears ==
    (JudgedEvent /\ movedAway(frame.results, baselineRef))
        => /\ ~ metrics.isAlarm
           /\ metrics.isWarning <=>
                 /\ ~ writingMode
                 /\ \/ isRaisedByHeight(frame.results, baselineRef, sensitivity)
                    \/ isRaisedByEarDist(frame.results, baselineRef, sensitivity)

\* C8 witness: a pose that has moved away and slouches beyond the margin is
\* published without warning
C8_Witness ==
    /\ JudgedEvent
    /\ ~ writingMode
    /\ movedAway(frame.results, baselineRef)
    /\ slouching(frame.results, baselineRef, sensitivity)
    /\ ~ metrics.isWarning
    /\ ~ metrics.isAlarm

\* C9 as stated: outside Writing Mode, for the baseline and the visible pose
\* of the frame, a warning at a level s1 is a warning at every level s2 > s1
C9_AsClaimed ==
    JudgedEvent =>
        \A s1, s2 \in SensitivityLevels :
            (s1 < s2 /\ Flags(frame.results, baselineRef, s1, FALSE).isWarning)
                => Flags(frame.results, baselineRef, s2, FALSE).isWarning

\* C10: in Writing Mode every event for a visible pose has isWarning, isAlarm
\* and isNeckWarning false and isOptimal true
C10_WritingModeSilences ==
    (VisibleEvent /\ writingMode)
        => /\ ~ metrics.isWarning
           /\ ~ metrics.isAlarm
           /\ ~ metrics.isNeckWarning
           /\ metrics.isOptimal

\* C10 witness: in Writing Mode a pose is published whose flags before the
\* override are a warning set by the raised-shoulder recheck after the
\* move-away override
C10_Witness ==
    /\ JudgedEvent
    /\ writingMode
    /\ movedAway(frame.results, baselineRef)
    /\ baselineFlags(frame.results, baselineRef, sensitivity, TRUE).isWarning
    /\ metrics.isOptimal

\* C11: the baseline changes only in a step where the armed listener
\* receives a frame (the clock advances with every frame) and captures it; a frame that is not captured, a change
\* of sensitivity, of privacy mode or of Writing Mode, the arming by
\* calibrate(), and every step of startCamera() and stopCamera() leave the
\* baseline as it is
C11_BaselineOnlyAtCapture ==
    [][ /\ (baselineRef' # baselineRef)
            => (listener = "capture" /\ now' # now /\ frame'.captured)
        /\ (now' # now /\ ~ frame'.captured) => baselineRef' = baselineRef
        /\ (sensitivity' # sensitivity) => baselineRef' = baselineRef
        /\ (privacyBlur' # privacyBlur) => baselineRef' = baselineRef
        /\ (writingMode' # writingMode) => baselineRef' = baselineRef
        /\ (listener = "onResults" /\ listener' = "capture")
            => baselineRef' = baselineRef
        /\ (cameraVars' # cameraVars)
            => (baselineRef' = baselineRef /\ baselineSession' = baselineSession)
      ]_vars

\* C11 witness: a baseline captured in the first camera session is the one
\* a pose is judged against in the second session, after stopCamera() and
\* startCamera()
C11_Witness ==
    /\ baselineRef = Upright
    /\ baselineSession = 1
    /\ session = 2
    /\ camera = "on"
    /\ frame # NoFrame
    /\ frame.session = 2
    /\ frame.handler = "onResults"
    /\ frame.results = FarRaised
    /\ frame.events = 1
    /\ metrics.personVisible
    /\ metrics.isWarning

\* the four rules of the Visibility Gate as the specification words them
GateRules(p) ==
    /\ p # NoPose
    /\ p.len >= 13
    /\ \A i \in GateIdx :
          /\ Has(p, i)
          /\ -50 <= At(p, i).x /\ At(p, i).x <= 1050
          /\ -50 <= At(p, i).y /\ At(p, i).y <= 1050
          /\ (At(p, i).visibility = NoVisibility \/ At(p, i).visibility > 50)
    /\ Dist2(At(p, LEFT_SHOULDER), At(p, RIGHT_SHOULDER)) >= 20 * 20

\* C12: a frame answered by an event is answered as visible exactly when
\* the pose has at least 13 landmarks, nose and both shoulders lie within
\* [-0.05, 1.05] in x and y, each has visibility absent or above 0.5, and the
\* shoulders are at least 0.02 apart
C12_GateIffRules ==
    (frame # NoFrame /\ frame.handler = "onResults" /\ frame.events = 1)
        => (metrics.personVisible <=> GateRules(frame.results))

\* C12 witness: a pose whose shoulders are exactly 0.02 apart, off the
\* horizontal, is answered as visible, as the second event published
C12_Witness ==
    /\ frame # NoFrame
    /\ frame.events = 1
    /\ metrics.personVisible
    /\ frame.results # NoPose
    /\ frame.results.len = FullLength
    /\ Dist2(At(frame.results, LEFT_SHOULDER), At(frame.results, RIGHT_SHOULDER)) = 400
    /\ At(frame.results, LEFT_SHOULDER).y # At(frame.results, RIGHT_SHOULDER).y
    /\ Len(publishedAt) = 2

\* C13 as stated: processing a frame never raises, whatever the pose and the
\* stored baseline, and a pose lacking a landmark that is referenced is
\* answered as not visible
C13_AsClaimed ==
    (frame # NoFrame /\ frame.handler = "onResults")
        => /\ ~ frame.raised
           /\ (frame.results # NoPose /\ frame.results.len < FullLength
                  /\ frame.events = 1)
                => ~ metrics.personVisible

\* C14 as stated: a delivered frame whose pose is absent or rejected by the
\* Visibility Gate is answered by a neutral event whenever more than 100 ms
\* have passed since the last published event, also after calibrate()
C14_AsClaimed ==
    (frame # NoFrame /\ ~ isPersonReallyVisible(frame.results))
        => /\ frame.events = 0 => now - lastUpdateRef <= 100
           /\ frame.events = 1 => ~ metrics.personVisible

\* C15: once calibrate() has armed the capture, it stays armed and the
\* baseline stays as it is in every step that is not the delivery of a frame
\* with a pose, the steps of stopCamera() and startCamera() included, however
\* many frames without a pose are delivered; the first frame with a pose is
\* the one captured
C15_ArmedUntilPose ==
    [][ listener = "capture"
          => IF now' # now /\ frame'.results # NoPose
             THEN /\ frame'.captured
                  /\ baselineRef' = frame'.results
                  /\ listener' = "onResults"
             ELSE /\ listener' = "capture"
                  /\ baselineRef' = baselineRef
                  /\ calibrationCount' = calibrationCount
      ]_vars

\* C15 witness: a calibration armed in the first camera session, with an
\* earlier baseline stored, has outlived a frame without a pose and a camera
\* restart, and is still armed after a frame without a pose in the second
\* session
C15_Witness ==
    /\ listener = "capture"
    /\ baselineRef = Upright
    /\ baselineSession = 1
    /\ calibrationCount = 1
    /\ session = 2
    /\ frame # NoFrame
    /\ frame.session = 2
    /\ frame.handler = "capture"
    /\ frame.results = NoPose
    /\ now = Epoch + Horizon

\* the raised-shoulder recheck fires for the frame's pose
Raised(lm, b, sens) ==
    isRaisedByHeight(lm, b, sens) \/ isRaisedByEarDist(lm, b, sens)

\* C16 as stated: a visible pose that satisfies the stand-up condition and a
\* raised-shoulder condition is published with isWarning true and isAlarm
\* false
C16_AsClaimed ==
    (JudgedEvent /\ stoodUp(frame.results, baselineRef)
                 /\ Raised(frame.results, baselineRef, sensitivity))
        => (metrics.isWarning /\ ~ metrics.isAlarm)

\* C16 amended: such a pose is published with isAlarm false, and with
\* isWarning true outside Writing Mode and false in Writing Mode
C16_StandUpThenRaised ==
    (JudgedEvent /\ stoodUp(frame.results, baselineRef)
                 /\ Raised(frame.results, baselineRef, sensitivity))
        => /\ ~ metrics.isAlarm
           /\ metrics.isWarning <=> ~ writingMode

\* C16 witness: outside Writing Mode a pose that is too close, has stood up
\* and has raised shoulders is published as a warning without alarm
C16_Witness ==
    /\ JudgedEvent
    /\ ~ writingMode
    /\ tooClose(frame.results, baselineRef, sensitivity)
    /\ stoodUp(frame.results, baselineRef)
    /\ Raised(frame.results, baselineRef, sensitivity)
    /\ metrics.isWarning
    /\ ~ metrics.isAlarm

\* doubled torso extent: hip-center y minus shoulder-center y
TorsoExtent2(p) ==
    (At(p, LEFT_HIP).y + At(p, RIGHT_HIP).y)
        - (At(p, LEFT_SHOULDER).y + At(p, RIGHT_SHOULDER).y)

\* the stand-up condition as the specification words it
StandUpRule(lm, b) ==
    /\ Has(lm, LEFT_HIP) /\ Has(lm, RIGHT_HIP)
    /\ TorsoExtent2(b) > 2 * 10
    /\ 100 * TorsoExtent2(lm) > 112 * TorsoExtent2(b)
    /\ At(lm, LEFT_HIP).y + At(lm, RIGHT_HIP).y
          < At(b, LEFT_HIP).y + At(b, RIGHT_HIP).y - 2 * 40

OnlyRaised ==
    /\ Raised(frame.results, baselineRef, sensitivity)
    /\ ~ neckBent(frame.results, sensitivity, writingMode)
    /\ ~ headSideways(frame.results, sensitivity, writingMode)

\* C18 as stated: a frame in which only the raised-shoulder check fires is
\* published with isWarning true and isNeckWarning false
C18_AsClaimed ==
    (JudgedEvent /\ OnlyRaised)
        => (metrics.isWarning /\ ~ metrics.isNeckWarning)

\* C18 amended: such a frame is published with isNeckWarning false, and with
\* isWarning true outside Writing Mode and false in Writing Mode
C18_RaisedIsNoNeckWarning ==
    (JudgedEvent /\ OnlyRaised)
        => /\ ~ metrics.isNeckWarning
           /\ metrics.isWarning <=> ~ writingMode

\* C18 witness: outside Writing Mode a pose for which nothing but the
\* raised-shoulder recheck fires is published as a warning that is no neck
\* warning
C18_Witness ==
    /\ JudgedEvent
    /\ ~ writingMode
    /\ OnlyRaised
    /\ ~ slouching(frame.results, baselineRef, sensitivity)
    /\ ~ tooClose(frame.results, baselineRef, sensitivity)
    /\ metrics.isWarning
    /\ ~ metrics.isNeckWarning

\* C19 as stated: the too-close ratio never grows with the level, so that,
\* for the baseline and the visible pose of the frame, an alarm at a level
\* s1 is an alarm at every level s2 > s1
C19_AsClaimed ==
    JudgedEvent =>
        \A s1, s2 \in SensitivityLevels :
            s1 < s2 =>
                /\ zThreshold(s2)[1] * zThreshold(s1)[2]
                      <= zThreshold(s1)[1] * zThreshold(s2)[2]
                /\ Flags(frame.results, baselineRef, s1, FALSE).isAlarm
                      => Flags(frame.results, baselineRef, s2, FALSE).isAlarm

\* C20 as stated: outside Writing Mode the head-sideways threshold never
\* grows with the level, so that a lateral offset over the threshold of a
\* level s1 is over that of every level s2 > s1, and an offset over the
\* threshold is published with isWarning and isNeckWarning true unless an
\* override clears the warning
C20_AsClaimed ==
    (JudgedEvent /\ ~ writingMode) =>
        /\ \A s1, s2 \in SensitivityLevels :
              s1 < s2 =>
                  /\ headSideThreshold(s2, FALSE) <= headSideThreshold(s1, FALSE)
                  /\ headSideways(frame.results, s1, FALSE)
                        => headSideways(frame.results, s2, FALSE)
        /\ headSideways(frame.results, sensitivity, FALSE)
              => /\ metrics.isNeckWarning
                 /\ metrics.isWarning
                       \/ stoodUp(frame.results, baselineRef)
                       \/ movedAway(frame.results, baselineRef)

\* the neck-angle thresholds of levels 1..10 as the specification lists them
NeckTable == << 130, 135, 140, 145, 150, 152, 153, 154, 155, 156 >>

\* C21: outside Writing Mode and with a baseline, the neck threshold of the
\* level is the listed one; a published neck angle strictly below it sets
\* isNeckWarning, and isWarning unless an override clears it, and an angle
\* at or above it sets neither unless the head-sideways check fires
C21_NeckThresholds ==
    (JudgedEvent /\ ~ writingMode)
        => LET limit == 100 * NeckTable[sensitivity]
           IN  /\ neckThreshold(sensitivity, FALSE) = NeckTable[sensitivity]
               /\ metrics.neckAngle < limit
                     => /\ metrics.isNeckWarning
                        /\ \/ metrics.isWarning
                           \/ stoodUp(frame.results, baselineRef)
                           \/ movedAway(frame.results, baselineRef)
               /\ (metrics.neckAngle >= limit
                      /\ ~ headSideways(frame.results, sensitivity, FALSE))
                     => ~ metrics.isNeckWarning

\* C21 witness: a neck angle equal to the threshold of the level is
\* published without neck warning
C21_Witness ==
    /\ JudgedEvent
    /\ ~ writingMode
    /\ sensitivity = 7
    /\ metrics.neckAngle = 100 * NeckTable[sensitivity]
    /\ ~ metrics.isNeckWarning
    /\ ~ metrics.isWarning

\* C22 as stated: for the head orientation of the frame's pose, the slouch
\* margin of a level s2 is not larger than that of a lower level s1, so
\* that a pose whose shoulders are lower than the baseline's by more than
\* the margin of s1 is so at s2; and the strict margin of a level is not
\* larger than its non-strict margin
C22_AsClaimed ==
    JudgedEvent =>
        LET sideways == isSideways(frame.results)
        IN  \A s1, s2 \in SensitivityLevels :
                /\ s1 < s2 =>
                      /\ slouchThreshold(s2, sideways) <= slouchThreshold(s1, sideways)
                      /\ slouching(frame.results, baselineRef, s1)
                            => slouching(frame.results, baselineRef, s2)
                /\ s1 >= 5 => slouchThreshold(s1, TRUE) <= slouchThreshold(s1, FALSE)

\* C23: two runs fed the same frames at the same times, the same
\* calibrate() calls, sensitivity and Writing Mode hold the same baseline
\* and capture state and publish the same events at the same frames,
\* whatever the privacy mode and the skeleton colour of each are
C23_TwinAgrees ==
    /\ twin.baselineRef = baselineRef
    /\ twin.listener = listener
    /\ twin.calibrationCount = calibrationCount
    /\ twin.lastUpdateRef = lastUpdateRef
    /\ twin.metrics = metrics
    /\ frame # NoFrame => twin.events = frame.events

\* C23 witness: a frame with a baseline publishes a warning in two runs
\* whose privacy modes and skeleton colours differ
C23_Witness ==
    /\ JudgedEvent
    /\ frame.events = 1
    /\ metrics.isWarning
    /\ twin.events = 1
    /\ twin.privacyBlur # privacyBlur
    /\ twin.skeletonColor # skeletonColor
    /\ frame.drawn.background = (IF privacyBlur THEN "black" ELSE "image")

\* the flags onResults holds for the last frame when it draws
DrawnFlags == Flags(frame.results, baselineRef, sensitivity, writingMode)

\* C24 as stated: a drawn spine is in the alert colour exactly for an alarm
\* or a warning without raised shoulders; whenever the neck warning is set
\* it is in the alert colour, and when only the raised-shoulder check fired
\* it is neutral
C24_AsClaimed ==
    (frame # NoFrame /\ frame.drawn.spine # "none")
        => /\ frame.drawn.spine = "alert"
                 <=> \/ DrawnFlags.isAlarm
                     \/ DrawnFlags.isWarning /\ ~ DrawnFlags.isRaisedShoulders
           /\ DrawnFlags.isNeckWarning => frame.drawn.spine = "alert"
           /\ (baselineRef # NoBaseline /\ OnlyRaised /\ ~ DrawnFlags.isAlarm)
                 => frame.drawn.spine = "neutral"

\* C25 as stated: every published event with isNeckWarning has isWarning,
\* and a frame whose warning was cleared by the stand-up or the move-away
\* override is published without isNeckWarning and drawn without red neck
\* segments
C25_AsClaimed ==
    /\ VisibleEvent => (metrics.isNeckWarning => metrics.isWarning)
    /\ (/\ JudgedEvent
        /\ \/ stoodUp(frame.results, baselineRef)
           \/ movedAway(frame.results, baselineRef)
        /\ ~ metrics.isWarning)
          => (~ metrics.isNeckWarning /\ frame.drawn.neck # "alert")

\* C26: a visible frame whose pose is the stored baseline is published
\* without alarm; neither the slouch check nor a raised-shoulder check
\* fires for it, no torso segment is drawn red, and if it is published with
\* isWarning then with isNeckWarning
C26_BaselinePoseOnlyNeck ==
    (JudgedEvent /\ frame.results = baselineRef)
        => /\ ~ metrics.isAlarm
           /\ ~ tooClose(frame.results, baselineRef, sensitivity)
           /\ ~ slouching(frame.results, baselineRef, sensitivity)
           /\ ~ Raised(frame.results, baselineRef, sensitivity)
           /\ ~ DrawnFlags.isRaisedShoulders
           /\ frame.drawn.torso # "alert"
           /\ metrics.isWarning => metrics.isNeckWarning

\* C26 witness: the baseline pose itself is published with a warning, which
\* is a neck warning
C26_Witness ==
    /\ JudgedEvent
    /\ frame.results = baselineRef
    /\ metrics.isWarning
    /\ metrics.isNeckWarning
    /\ ~ metrics.isAlarm

\* C28 as stated: whenever isActive is true a camera is held in cameraRef
C28_AsClaimed == isActive => cameraRef # "null"

\* the step plays the alarm sound
SoundPlayed == Len(app'.sounds) > Len(app.sounds)

\* the step is the render that follows a published event
EventRendered == app.metricsSet /\ ~ app'.metricsSet

\* C27: the alarm sound is played only for metrics with personVisible and
\* isWarning or isAlarm, when every event published since the warning start
\* time was set was such an event and at least timer seconds have passed
\* since the start time; playing it sets the start time to now, so that it
\* is at least timer seconds after the previous sound; and the render of an
\* event that is optimal or not visible sets the start time to null
C27_SoundOnlyAfterTimer ==
    [][ /\ SoundPlayed =>
              /\ warned(metrics)
              /\ ~ app.unwarnedSinceStart
              /\ app.warningStartTimeRef # Null
              /\ now - app.warningStartTimeRef[1] >= 1000 * app.timer
              /\ app'.warningStartTimeRef = << now >>
              /\ Len(app.sounds) > 0 =>
                    now - app.sounds[Len(app.sounds)].at >= 1000 * app.timer
        /\ (EventRendered /\ ~ warned(metrics)) =>
              app'.warningStartTimeRef = Null ]_vars

\* C27 witness: the sound has been played twice, at least timer seconds
\* apart, the second time in the last render
C27_Witness ==
    /\ app # NoApp
    /\ Len(app.sounds) >= 2
    /\ app.sounds[2].at - app.sounds[1].at >= 1000 * app.sounds[2].timer
    /\ warned(metrics)
    /\ app.warningStartTimeRef = << now >>

\* C29 as stated: calibrationCount is 0 exactly while no baseline is stored,
\* it changes only by a capture, which adds 1, and the calibrate reminder is
\* not switched on while a baseline is stored
C29_AsClaimed ==
    [][ /\ (calibrationCount = 0) <=> (baselineRef = NoBaseline)
        /\ calibrationCount' # calibrationCount =>
              /\ calibrationCount' = calibrationCount + 1
              /\ frame'.handler = "capture"
              /\ frame'.captured
              /\ now' # now
        /\ (now' # now /\ frame'.handler = "capture" /\ frame'.captured) =>
              calibrationCount' = calibrationCount + 1
        /\ (~ app.showCalibrateReminder /\ app'.showCalibrateReminder) =>
              baselineRef = NoBaseline ]_vars

\* the step publishes an event, which is then in metrics
Published == publishedAt' # publishedAt \/ lastUpdateRef' # lastUpdateRef

\* C30: the session counters satisfy 0 <= good <= total; a step adds 1 to
\* the total exactly when it publishes an event with personVisible, and 1 to
\* the good frames exactly when that event has neither isWarning nor
\* isAlarm, and no step adds more; the percent of a session summary is in
\* 0..100, and is 0 when it is computed with a total of 0
C30_SessionCounters ==
    [][ /\ 0 <= app.sessionGoodFramesRef
        /\ app.sessionGoodFramesRef <= app.sessionTotalFramesRef
        /\ app'.sessionTotalFramesRef > app.sessionTotalFramesRef
              <=> (Published /\ metrics'.personVisible)
        /\ app'.sessionGoodFramesRef > app.sessionGoodFramesRef
              <=> (/\ Published
                   /\ metrics'.personVisible
                   /\ ~ metrics'.isWarning
                   /\ ~ metrics'.isAlarm)
        /\ app'.sessionTotalFramesRef <= app.sessionTotalFramesRef + 1
        /\ app'.sessionGoodFramesRef <= app.sessionGoodFramesRef + 1
        /\ app.sessionSummary # Null => app.sessionSummary[1] \in 0..100
        /\ (app'.sessionSummary # app.sessionSummary
               /\ app'.sessionSummary # Null
               /\ app.sessionTotalFramesRef = 0)
              => app'.sessionSummary = << 0 >> ]_vars

\* C30 witness: a session with events of all three kinds has ended with a
\* summary strictly between 0 and 100 percent
C30_Witness ==
    /\ app # NoApp
    /\ app.sessionSummary # Null
    /\ app.sessionSummary[1] > 0
    /\ app.sessionSummary[1] < 100
    /\ app.sessionGoodFramesRef > 0
    /\ app.sessionGoodFramesRef < app.sessionTotalFramesRef
    /\ metrics # NoMetrics
    /\ ~ metrics.personVisible

=============================================================================
